---------------------------- MODULE Spec2Model ----------------------------
(***************************************************************************)
(* HighwayEnv (src/highway_env/envs/highway_env.py): the episode           *)
(* controller, the difficulty profiles, the configuration merge, the world *)
(* build and the reward / terminal / constraint computations.              *)
(*                                                                         *)
(* Python dicts are functions from a set of string keys; Python objects    *)
(* that are shared by reference (the class-level profile dicts and         *)
(* self.config) live in `heap` and are named by an object id.  Reals are   *)
(* exact rationals <<numerator, denominator>>; a denominator of 0 is the   *)
(* IEEE not-a-number / infinity a numpy division by zero yields.           *)
(***************************************************************************)
EXTENDS Integers, Sequences, FiniteSets, Bags, TLC

VARIABLES
    heap,       \* object id -> dict: the three profile dicts and self.config's dict
    config,     \* self.config: the id of the dict it refers to
    steps,      \* self.steps
    road,       \* self.road: [lanes, vehicles]
    vehicle,    \* self.vehicle: [crashed, target_lane_index, velocity_index]
    call,       \* the last call issued by the caller: [op, level, action, overrides]
    ret,        \* what that call returned or raised: [err, reward, terminal, constraint]
    episode     \* history of the running episode: [D, k, clean]

vars == <<heap, config, steps, road, vehicle, call, ret, episode>>

-----------------------------------------------------------------------------
(* Bounds of the model *)

\* step() is explored while self.steps is below this bound
MaxSteps == 41

\* the same, for the callers that also call configure()
MaxShortSteps == 3

\* MDPVehicle.SPEED_COUNT, the number of discretized speed levels
SPEED_COUNT == 3

-----------------------------------------------------------------------------
(* Exact rational arithmetic standing for Python's float arithmetic *)

Abs(n) == IF n < 0 THEN -n ELSE n

RECURSIVE GCD(_, _)
GCD(a, b) == IF b = 0 THEN a ELSE GCD(b, a % b)

Sign(n) == IF n < 0 THEN -1 ELSE IF n > 0 THEN 1 ELSE 0

Rat(n, d) ==
    IF d = 0 THEN <<Sign(n), 0>>
    ELSE LET g == GCD(Abs(n), Abs(d))
         IN  <<Sign(d) * (n \div g), Abs(d) \div g>>

NaN == <<0, 0>>

IsFinite(a) == a[2] # 0

RAdd(a, b) ==
    IF IsFinite(a) /\ IsFinite(b) THEN Rat(a[1] * b[2] + b[1] * a[2], a[2] * b[2])
    ELSE NaN

RSub(a, b) == RAdd(a, <<-b[1], b[2]>>)

RMul(a, b) ==
    IF IsFinite(a) /\ IsFinite(b) THEN Rat(a[1] * b[1], a[2] * b[2])
    ELSE NaN

\* a / b where the divisor is not zero, or is zero and the operands are
\* numpy scalars (no exception: 0/0 is nan, x/0 is +-inf)
RDiv(a, b) ==
    IF IsFinite(a) /\ IsFinite(b) THEN Rat(a[1] * b[2], a[2] * b[1])
    ELSE NaN

\* a <= b; every comparison with a nan is false
RLe(a, b) == IsFinite(a) /\ IsFinite(b) /\ a[1] * b[2] <= b[1] * a[2]

RInt(n) == <<n, 1>>

-----------------------------------------------------------------------------
(* Class constants *)

COLLISION_REWARD == -1

\* 0.1
RIGHT_LANE_REWARD == Rat(1, 10)

\* 0.4
HIGH_VELOCITY_REWARD == Rat(4, 10)

LANE_CHANGE_REWARD == -0

IDMVehicle == "highway_env.vehicle.behavior.IDMVehicle"

LevelNames == {"EASY", "MEDIUM", "HARD"}

Profile(lanes, spacing, vehicles, duration) ==
    [lanes_count |-> lanes,
     initial_spacing |-> spacing,
     vehicles_count |-> vehicles,
     duration |-> duration,
     other_vehicles_type |-> IDMVehicle,
     centering_position |-> <<Rat(3, 10), Rat(5, 10)>>,
     collision_reward |-> COLLISION_REWARD]

\* the class attribute as the class body builds it
DIFFICULTY_LEVELS_INIT ==
    [EASY |-> Profile(2, 2, 5, 20),
     MEDIUM |-> Profile(3, 2, 10, 30),
     HARD |-> Profile(4, 3, 50, 40)]

\* self.DIFFICULTY_LEVELS[level]: the class attribute holds references
DIFFICULTY_LEVELS(level) == heap[level]

\* the dict self.config refers to
Config == heap[config]

-----------------------------------------------------------------------------
(* Inputs the caller and the collaborators supply *)

\* the five discrete actions: 0 and 2 change lane, 1, 3 and 4 do not
Actions == 0 .. 4

\* names handed to set_difficulty_level: the registered ones and one that is not
LevelInputs == LevelNames \cup {"EXPERT"}

\* a behaviour-type path that utils.class_from_path cannot import
UnknownVehicle == "highway_env.vehicle.behavior.NoSuchVehicle"

\* mappings handed to configure
ConfigInputs ==
    { [duration |-> 2, policy_frequency |-> 1],
      [duration |-> 5],
      [lanes_count |-> 1],
      [other_vehicles_type |-> UnknownVehicle] }

-----------------------------------------------------------------------------
(* Collaborators: utils, Road, RoadNetwork, MDPVehicle, AbstractEnv *)

\* dict.update(other): every key of other is set, no key is removed
update(d, other) ==
    [k \in DOMAIN d \cup DOMAIN other |-> IF k \in DOMAIN other THEN other[k] ELSE d[k]]

\* utils.class_from_path(path) succeeds for the types the package defines
Resolvable(path) == path = IDMVehicle

\* len(self.road.network.all_side_lanes(lane_index)) on a straight road
SideLanes(rd) == rd.lanes

\* MDPVehicle.speed_to_index(25): the level of the fixed baseline speed, the
\* middle of the SPEED_COUNT levels spread over [20, 30]
BaselineSpeedIndex == SPEED_COUNT \div 2

\* MDPVehicle.create_random(road, 25, spacing): a fresh vehicle on a lane
\* the random source picks, at the baseline speed
create_random(lane) ==
    [crashed |-> FALSE, target_lane_index |-> lane, velocity_index |-> BaselineSpeedIndex]

\* n vehicles of one type, as Road.vehicles holds them
Vehicles(type, n) == IF n > 0 THEN [t \in {type} |-> n] ELSE EmptyBag

Min(a, b) == IF a < b THEN a ELSE b

Max(a, b) == IF a > b THEN a ELSE b

\* AbstractEnv._simulate(action): the action is applied to the controlled
\* vehicle and the world advances; a crash may happen and is never undone
_simulate(v, action, crash, rd) ==
    [crashed |-> v.crashed \/ crash,
     target_lane_index |->
        IF action = 0 THEN Max(v.target_lane_index - 1, 0)
        ELSE IF action = 2 THEN Min(v.target_lane_index + 1, rd.lanes - 1)
        ELSE v.target_lane_index,
     velocity_index |->
        IF action = 3 THEN Min(v.velocity_index + 1, SPEED_COUNT - 1)
        ELSE IF action = 4 THEN Max(v.velocity_index - 1, 0)
        ELSE v.velocity_index]

\* utils.remap(v, x, y) = y[0] + (v - x[0]) * (y[1] - y[0]) / (x[1] - x[0])
remap(v, x, y) ==
    RAdd(y[1], RDiv(RMul(RSub(v, x[1]), RSub(y[2], y[1])), RSub(x[2], x[1])))

-----------------------------------------------------------------------------
(* HighwayEnv *)

\* _create_road that ignores lanes_count and builds the HARD road
_create_road_fixed(cfg) ==
    [lanes |-> DIFFICULTY_LEVELS_INIT["HARD"]["lanes_count"], vehicles |-> EmptyBag]

\* Road.vehicles is the bag of the vehicles appended to it, by type
_create_road(cfg) == [lanes |-> cfg["lanes_count"], vehicles |-> EmptyBag]

\* the result of _create_vehicles on road rd: the road and vehicle it leaves
\* behind, and the exception it raised, if any
_create_vehicles(cfg, rd, lane) ==
    LET v == create_random(lane)
        rd1 == [rd EXCEPT !.vehicles = @ (+) Vehicles("MDPVehicle", 1)]
    IN  IF ~Resolvable(cfg["other_vehicles_type"])
        THEN [err |-> "UnresolvedBehaviorType", road |-> rd1, vehicle |-> v]
        ELSE [err |-> "none",
              road |-> [rd1 EXCEPT !.vehicles =
                          @ (+) Vehicles(cfg["other_vehicles_type"], cfg["vehicles_count"])],
              vehicle |-> v]

\* _is_terminal with > for >=
_is_terminal_late(v, n, cfg) == v.crashed \/ n > cfg["duration"]

\* _is_terminal that forgets the crash
_is_terminal_timeout_only(v, n, cfg) == n >= cfg["duration"]

\* _is_terminal that reads the duration of the HARD profile, not self.config
_is_terminal_profile(v, n, cfg) ==
    v.crashed \/ n >= DIFFICULTY_LEVELS("HARD")["duration"]

\* _is_terminal that times out only on the step that reaches the duration
_is_terminal_exact(v, n, cfg) == v.crashed \/ n = cfg["duration"]

_is_terminal(v, n, cfg) == v.crashed \/ n >= cfg["duration"]

\* _constraint that reports the absence of a collision
_constraint_negated(v) == IF v.crashed THEN RInt(0) ELSE RInt(1)

_constraint(v) == IF v.crashed THEN RInt(1) ELSE RInt(0)

action_reward(action) ==
    IF action \in {0, 2} THEN RInt(LANE_CHANGE_REWARD) ELSE RInt(0)

\* _reward whose remap forgets RIGHT_LANE_REWARD in the upper bound
_reward_narrow(action, v, rd, cfg) ==
    LET collision == RInt(cfg["collision_reward"])
        state_reward ==
            RAdd(RAdd(RMul(collision, RInt(IF v.crashed THEN 1 ELSE 0)),
                      RDiv(RMul(RIGHT_LANE_REWARD, RInt(v.target_lane_index)),
                           RInt(SideLanes(rd) - 1))),
                 RDiv(RMul(HIGH_VELOCITY_REWARD, RInt(v.velocity_index)),
                      RInt(SPEED_COUNT - 1)))
    IN  {[err |-> "none",
          value |-> remap(RAdd(action_reward(action), state_reward),
                          <<collision, HIGH_VELOCITY_REWARD>>, <<RInt(0), RInt(1)>>)]}

\* _reward that forgets the collision term
_reward_no_collision(action, v, rd, cfg) ==
    LET collision == RInt(cfg["collision_reward"])
        state_reward ==
            RAdd(RDiv(RMul(RIGHT_LANE_REWARD, RInt(v.target_lane_index)),
                      RInt(SideLanes(rd) - 1)),
                 RDiv(RMul(HIGH_VELOCITY_REWARD, RInt(v.velocity_index)),
                      RInt(SPEED_COUNT - 1)))
    IN  {[err |-> "none",
          value |-> remap(RAdd(action_reward(action), state_reward),
                          <<collision, RAdd(HIGH_VELOCITY_REWARD, RIGHT_LANE_REWARD)>>,
                          <<RInt(0), RInt(1)>>)]}

\* the outcomes of _reward(action): a value, or the exception it raises.
\* With one lane the lane term divides by zero: a Python int index raises
\* ZeroDivisionError, a numpy integer index (np.clip's result) yields nan.
_reward(action, v, rd, cfg) ==
    LET neighbours == SideLanes(rd)
        collision == RInt(cfg["collision_reward"])
        state_reward ==
            RAdd(RAdd(RMul(collision, RInt(IF v.crashed THEN 1 ELSE 0)),
                      RDiv(RMul(RIGHT_LANE_REWARD, RInt(v.target_lane_index)),
                           RInt(neighbours - 1))),
                 RDiv(RMul(HIGH_VELOCITY_REWARD, RInt(v.velocity_index)),
                      RInt(SPEED_COUNT - 1)))
        value == remap(RAdd(action_reward(action), state_reward),
                       <<collision, RAdd(HIGH_VELOCITY_REWARD, RIGHT_LANE_REWARD)>>,
                       <<RInt(0), RInt(1)>>)
    IN  IF neighbours - 1 = 0
        THEN {[err |-> "ZeroDivisionError", value |-> NaN], [err |-> "none", value |-> value]}
        ELSE {[err |-> "none", value |-> value]}

NoCall == [op |-> "__init__", level |-> "", action |-> 0, overrides |-> <<>>]

NoRet == [err |-> "none", reward |-> RInt(0), terminal |-> FALSE, constraint |-> RInt(0)]

\* reset() run on configuration cfg: the state it leaves and what it raises
Build(cfg, lane) ==
    LET b == _create_vehicles(cfg, _create_road(cfg), lane)
    IN  /\ road' = b.road
        /\ vehicle' = b.vehicle
        /\ steps' = IF b.err = "none" THEN 0 ELSE steps
        /\ ret' = [NoRet EXCEPT !.err = b.err]
        /\ episode' = IF b.err = "none"
                      THEN [D |-> cfg["duration"], k |-> 0, clean |-> TRUE]
                      ELSE [D |-> 0, k |-> 0, clean |-> FALSE]

reset ==
    /\ \E lane \in 0 .. Config["lanes_count"] - 1 : Build(Config, lane)
    /\ call' = [NoCall EXCEPT !.op = "reset"]
    /\ UNCHANGED <<heap, config>>

\* AbstractEnv.step(action): simulate, then compute the reward, the terminal
\* flag and the constraint on the new state and return them; an exception of
\* _reward leaves the call without a result
AbstractEnv_step(action) ==
    /\ \E crash \in BOOLEAN : vehicle' = _simulate(vehicle, action, crash, road)
    /\ \E out \in _reward(action, vehicle', road, Config) :
          ret' = IF out.err = "none"
                 THEN [err |-> "none",
                       reward |-> out.value,
                       terminal |-> _is_terminal(vehicle', steps', Config),
                       constraint |-> _constraint(vehicle')]
                 ELSE [NoRet EXCEPT !.err = out.err]

step(action) ==
    /\ steps < MaxSteps
    /\ steps' = steps + 1
    /\ AbstractEnv_step(action)
    /\ call' = [NoCall EXCEPT !.op = "step", !.action = action]
    /\ episode' = [episode EXCEPT !.k = @ + 1]
    /\ UNCHANGED <<heap, config, road>>

\* set_difficulty_level that rebuilds the world before it validates the name
set_difficulty_level_reset_first(level) ==
    /\ call' = [NoCall EXCEPT !.op = "set_difficulty_level", !.level = level]
    /\ config' = config
    /\ heap' = IF level \in LevelNames
               THEN [heap EXCEPT ![config] = update(@, DIFFICULTY_LEVELS(level))]
               ELSE heap
    /\ \E lane \in 0 .. heap'[config]["lanes_count"] - 1 :
          LET b == _create_vehicles(heap'[config], _create_road(heap'[config]), lane)
          IN  /\ road' = b.road
              /\ vehicle' = b.vehicle
              /\ steps' = IF b.err = "none" THEN 0 ELSE steps
              /\ ret' = [NoRet EXCEPT !.err = IF level \in LevelNames THEN b.err
                                              ELSE "ValueError"]
              /\ episode' = [D |-> 0, k |-> 0, clean |-> FALSE]

\* set_difficulty_level that merges the profile and forgets to reset
set_difficulty_level_no_reset(level) ==
    /\ call' = [NoCall EXCEPT !.op = "set_difficulty_level", !.level = level]
    /\ config' = config
    /\ IF level \in LevelNames
       THEN /\ heap' = [heap EXCEPT ![config] = update(@, DIFFICULTY_LEVELS(level))]
            /\ ret' = NoRet
            /\ episode' = [D |-> 0, k |-> episode.k, clean |-> FALSE]
            /\ UNCHANGED <<steps, road, vehicle>>
       ELSE /\ ret' = [NoRet EXCEPT !.err = "ValueError"]
            /\ UNCHANGED <<heap, steps, road, vehicle, episode>>

set_difficulty_level(level) ==
    /\ call' = [NoCall EXCEPT !.op = "set_difficulty_level", !.level = level]
    /\ config' = config
    /\ IF level \in LevelNames
       THEN /\ heap' = [heap EXCEPT ![config] = update(@, DIFFICULTY_LEVELS(level))]
            /\ \E lane \in 0 .. heap'[config]["lanes_count"] - 1 :
                  Build(heap'[config], lane)
       ELSE /\ ret' = [NoRet EXCEPT !.err = "ValueError"]
            /\ UNCHANGED <<heap, steps, road, vehicle, episode>>

\* configure that replaces the configuration by the overrides
configure_assign(overrides) ==
    /\ heap' = [heap EXCEPT ![config] = overrides]
    /\ call' = [NoCall EXCEPT !.op = "configure", !.overrides = overrides]
    /\ ret' = NoRet
    /\ episode' = [D |-> 0, k |-> episode.k, clean |-> FALSE]
    /\ UNCHANGED <<config, steps, road, vehicle>>

\* configure that rebuilds the world after the merge
configure_and_reset(overrides) ==
    /\ heap' = [heap EXCEPT ![config] = update(@, overrides)]
    /\ call' = [NoCall EXCEPT !.op = "configure", !.overrides = overrides]
    /\ config' = config
    /\ \E lane \in 0 .. heap'[config]["lanes_count"] - 1 : Build(heap'[config], lane)

\* configure that resolves other_vehicles_type before it accepts the overrides
configure_validating(overrides) ==
    /\ call' = [NoCall EXCEPT !.op = "configure", !.overrides = overrides]
    /\ IF Resolvable(update(heap[config], overrides)["other_vehicles_type"])
       THEN /\ heap' = [heap EXCEPT ![config] = update(@, overrides)]
            /\ ret' = NoRet
            /\ episode' = [D |-> 0, k |-> episode.k, clean |-> FALSE]
       ELSE /\ ret' = [NoRet EXCEPT !.err = "UnresolvedBehaviorType"]
            /\ UNCHANGED <<heap, episode>>
    /\ UNCHANGED <<config, steps, road, vehicle>>

configure(overrides) ==
    /\ heap' = [heap EXCEPT ![config] = update(@, overrides)]
    /\ call' = [NoCall EXCEPT !.op = "configure", !.overrides = overrides]
    /\ ret' = NoRet
    /\ episode' = [D |-> 0, k |-> episode.k, clean |-> FALSE]
    /\ UNCHANGED <<config, steps, road, vehicle>>

\* HighwayEnv() without the .copy(): self.config is the HARD profile itself
InitNoCopy ==
    /\ config = "HARD"
    /\ heap = [id \in LevelNames \cup {"self.config"} |->
                 IF id \in LevelNames THEN DIFFICULTY_LEVELS_INIT[id]
                 ELSE DIFFICULTY_LEVELS_INIT["HARD"]]
    /\ call = NoCall
    /\ ret = NoRet
    /\ steps = 0
    /\ \E lane \in 0 .. heap[config]["lanes_count"] - 1 :
          LET b == _create_vehicles(heap[config], _create_road(heap[config]), lane)
          IN  /\ road = b.road
              /\ vehicle = b.vehicle
    /\ episode = [D |-> heap[config]["duration"], k |-> 0, clean |-> TRUE]

\* HighwayEnv(): the profile dicts exist, self.config is a copy of HARD,
\* and reset() has built the first world
Init ==
    /\ config = "self.config"
    /\ heap = [id \in LevelNames \cup {"self.config"} |->
                 IF id \in LevelNames THEN DIFFICULTY_LEVELS_INIT[id]
                 ELSE DIFFICULTY_LEVELS_INIT["HARD"]]
    /\ call = NoCall
    /\ ret = NoRet
    /\ steps = 0
    /\ \E lane \in 0 .. heap[config]["lanes_count"] - 1 :
          LET b == _create_vehicles(heap[config], _create_road(heap[config]), lane)
          IN  /\ road = b.road
              /\ vehicle = b.vehicle
    /\ episode = [D |-> heap[config]["duration"], k |-> 0, clean |-> TRUE]

\* a caller that runs episodes to their end under the registered profiles
Next ==
    \/ reset
    \/ \E action \in Actions : step(action)
    \/ \E level \in LevelInputs : set_difficulty_level(level)

Spec == Init /\ [][Next]_vars

\* a caller that also overrides the configuration, in short episodes
NextConfigure ==
    \/ reset
    \/ steps < MaxShortSteps /\ \E action \in Actions : step(action)
    \/ \E level \in LevelInputs : set_difficulty_level(level)
    \/ \E overrides \in ConfigInputs : configure(overrides)

SpecConfigure == Init /\ [][NextConfigure]_vars

-----------------------------------------------------------------------------
(* Properties *)

\* the last call was a step() that returned
Stepped == call.op = "step" /\ ret.err = "none"

\* C1: after a reset() under duration D, with no crash and no configuration
\* change since, the k-th step returns terminal = FALSE for k in 1..D-1 and
\* terminal = TRUE at k = D.
C1_DurationBoundary ==
    (Stepped /\ episode.clean) =>
        /\ (episode.k \in 1 .. episode.D - 1 /\ ~vehicle.crashed) => ~ret.terminal
        /\ episode.k = episode.D => ret.terminal

\* the 40th step of a HARD episode without a crash
C1_Witness ==
    /\ Stepped /\ episode.clean /\ ~vehicle.crashed
    /\ episode.D = 40 /\ episode.k = 40 /\ ret.terminal

\* C2: a step never clears the crashed flag, and the step on which the flag
\* becomes true returns terminal = TRUE whatever steps and the duration are.
C2_CollisionMonotonic ==
    [][call'.op = "step" =>
          /\ vehicle.crashed => vehicle'.crashed
          /\ (~vehicle.crashed /\ vehicle'.crashed /\ ret'.err = "none") => ret'.terminal]_vars

\* a crash on the first step of an episode, long before the duration
C2_Witness ==
    /\ Stepped /\ vehicle.crashed /\ ret.terminal
    /\ steps = 1 /\ steps < Config["duration"]

\* C3: on every step the constraint signal is 1.0 if the controlled vehicle
\* has crashed and 0.0 if it has not, whatever the action, steps and the
\* configuration are.
C3_ConstraintIsCrash ==
    Stepped => ret.constraint = (IF vehicle.crashed THEN RInt(1) ELSE RInt(0))

\* a crashed step with constraint 1.0 under an overridden configuration
C3_Witness ==
    /\ Stepped /\ vehicle.crashed /\ ret.constraint = RInt(1)
    /\ "policy_frequency" \in DOMAIN Config

\* C4: set_difficulty_level with an unregistered name raises and leaves the
\* configuration, the road, the vehicles and the step counter as they were.
C4_UnknownLevelNoMutation ==
    [][(call'.op = "set_difficulty_level" /\ call'.level \notin LevelNames) =>
          /\ ret'.err = "ValueError"
          /\ config' = config /\ heap' = heap
          /\ road' = road /\ vehicle' = vehicle /\ steps' = steps]_vars

\* the unregistered name was rejected in the middle of an episode
C4_Witness ==
    /\ call.op = "set_difficulty_level" /\ call.level = "EXPERT"
    /\ ret.err = "ValueError" /\ steps > 0 /\ vehicle.crashed

\* C5: a successful set_difficulty_level with a registered name leaves
\* steps = 0, the profile's values in the configuration, a fresh world with
\* the profile's lane count and 1 + vehicles_count vehicles, and the
\* profile's duration deciding termination.
C5_ProfileApplied ==
    (call.op = "set_difficulty_level" /\ call.level \in LevelNames /\ ret.err = "none") =>
        LET profile == DIFFICULTY_LEVELS_INIT[call.level]
        IN  /\ steps = 0
            /\ \A key \in DOMAIN profile : Config[key] = profile[key]
            /\ road.lanes = profile["lanes_count"]
            /\ BagCardinality(road.vehicles) = 1 + profile["vehicles_count"]
            /\ BagIn("MDPVehicle", road.vehicles)
            /\ ~vehicle.crashed
            /\ \A n \in 0 .. MaxSteps + 1 :
                  _is_terminal(vehicle, n, Config) <=> n >= profile["duration"]

\* EASY selected over a configuration that had been overridden
C5_Witness ==
    /\ call.op = "set_difficulty_level" /\ call.level = "EASY" /\ ret.err = "none"
    /\ "policy_frequency" \in DOMAIN Config
    /\ BagCardinality(road.vehicles) = 6

\* the keys _create_road, _create_vehicles, _reward and _is_terminal read
RequiredKeys ==
    {"lanes_count", "initial_spacing", "vehicles_count", "other_vehicles_type",
     "collision_reward", "duration"}

\* C6: configure(O) sets every key of O to O's value, leaves every other key
\* of the configuration at its value and removes no key.
C6_ShallowMerge ==
    [][call'.op = "configure" =>
          LET O == call'.overrides
              C == heap[config]
              merged == heap'[config']
          IN  /\ DOMAIN C \subseteq DOMAIN merged
              /\ DOMAIN O \subseteq DOMAIN merged
              /\ RequiredKeys \subseteq DOMAIN merged
              /\ \A key \in DOMAIN O : merged[key] = O[key]
              /\ \A key \in DOMAIN C \ DOMAIN O : merged[key] = C[key]]_vars

\* an override that adds a key, over a configuration overridden before
C6_Witness ==
    /\ call.op = "configure" /\ "policy_frequency" \in DOMAIN call.overrides
    /\ Config["policy_frequency"] = 1 /\ Config["duration"] = 2
    /\ Config["lanes_count"] = 1

\* C7: configure changes the configuration only: steps, the road, the
\* controlled vehicle and the vehicle list stay as they were.
C7_ConfigureNoRebuild ==
    [][call'.op = "configure" =>
          steps' = steps /\ road' = road /\ vehicle' = vehicle]_vars

\* configure in mid-episode, leaving a road that no longer matches it
C7_Witness ==
    /\ call.op = "configure" /\ steps > 0
    /\ road.lanes # Config["lanes_count"]

\* the reward with the lane term taken as 0
RewardWithoutLaneTerm(action, v, cfg) ==
    remap(RAdd(action_reward(action),
               RAdd(RMul(RInt(cfg["collision_reward"]), RInt(IF v.crashed THEN 1 ELSE 0)),
                    RDiv(RMul(HIGH_VELOCITY_REWARD, RInt(v.velocity_index)),
                         RInt(SPEED_COUNT - 1)))),
          <<RInt(cfg["collision_reward"]), RAdd(HIGH_VELOCITY_REWARD, RIGHT_LANE_REWARD)>>,
          <<RInt(0), RInt(1)>>)

\* C8: on a road with one lane the reward is computed without a division
\* fault, with a lane term of 0.
C8_SingleLaneReward ==
    (call.op = "step" /\ SideLanes(road) = 1) =>
        /\ ret.err = "none"
        /\ ret.reward = RewardWithoutLaneTerm(call.action, vehicle, Config)

\* C9: when other_vehicles_type cannot be resolved the build fails and has
\* added no vehicle to the road, the controlled vehicle included.
C9_AtomicBuild ==
    ret.err = "UnresolvedBehaviorType" =>
        /\ road.vehicles = EmptyBag
        /\ ~BagIn("MDPVehicle", road.vehicles)

\* C10: under the registered profiles every step's reward lies in [0, 1],
\* is 0 at the least raw value (crashed, leftmost lane, lowest speed) and 1
\* at the greatest (not crashed, rightmost lane, highest speed).
C10_RewardRange ==
    (Stepped /\ Config["collision_reward"] = COLLISION_REWARD /\ SideLanes(road) >= 2) =>
        /\ RLe(RInt(0), ret.reward) /\ RLe(ret.reward, RInt(1))
        /\ (vehicle.crashed /\ vehicle.target_lane_index = 0 /\ vehicle.velocity_index = 0)
              => ret.reward = RInt(0)
        /\ (~vehicle.crashed /\ vehicle.target_lane_index = SideLanes(road) - 1
              /\ vehicle.velocity_index = SPEED_COUNT - 1)
              => ret.reward = RInt(1)

\* a lane change into the rightmost lane at full speed earns 1
C10_Witness ==
    /\ Stepped /\ call.action = 2 /\ ~vehicle.crashed
    /\ vehicle.target_lane_index = SideLanes(road) - 1
    /\ vehicle.velocity_index = SPEED_COUNT - 1
    /\ ret.reward = RInt(1)

\* the affine image in [0, 1] of a raw value in [low, high]
AffineImage(raw, low, high) == RDiv(RSub(raw, low), RSub(high, low))

\* C11: on a road of N > 1 lanes the reward of a hold action (1, 3, 4) on a
\* vehicle that has not crashed is the affine image of
\* RIGHT_LANE_REWARD * L / (N - 1) + HIGH_VELOCITY_REWARD * S / (SPEED_COUNT - 1)
\* from [collision_reward, RIGHT_LANE_REWARD + HIGH_VELOCITY_REWARD] to [0, 1];
\* a crash adds collision_reward to the raw value and a lane change (0, 2)
\* adds LANE_CHANGE_REWARD.
C11_RewardFormula ==
    (Stepped /\ SideLanes(road) > 1) =>
        LET L == vehicle.target_lane_index
            S == vehicle.velocity_index
            N == SideLanes(road)
            penalty == RInt(Config["collision_reward"])
            hold == RAdd(RMul(RIGHT_LANE_REWARD, Rat(L, N - 1)),
                         RMul(HIGH_VELOCITY_REWARD, Rat(S, SPEED_COUNT - 1)))
            crash == IF vehicle.crashed THEN penalty ELSE RInt(0)
            change == IF call.action \in {0, 2} THEN RInt(LANE_CHANGE_REWARD) ELSE RInt(0)
        IN  ret.reward = AffineImage(RAdd(RAdd(hold, crash), change),
                                     penalty, RAdd(RIGHT_LANE_REWARD, HIGH_VELOCITY_REWARD))

\* a crashed vehicle in the rightmost lane of a MEDIUM road after a lane
\* change: raw = -1 + 0.1 + 0.4 * 1/2, reward 1/5
C11_Witness ==
    /\ Stepped /\ call.action = 2 /\ vehicle.crashed
    /\ SideLanes(road) = 3 /\ vehicle.target_lane_index = 2
    /\ vehicle.velocity_index = BaselineSpeedIndex
    /\ ret.reward = Rat(1, 5)

\* C12: steps is a natural number that is 0 after every reset(), grows by
\* exactly 1 on every step call and is left alone by configure, so that it
\* always equals the number of step calls since the world was last rebuilt.
C12_StepCounter ==
    [][/\ steps' \in Nat
       /\ call'.op = "reset" => steps' = 0
       /\ call'.op = "step" => steps' = steps + 1
       /\ call'.op = "configure" => steps' = steps
       /\ steps' = episode'.k]_vars

\* the world and the counter are those reset() builds from the configuration
WorldMatchesConfig ==
    /\ road.lanes = Config["lanes_count"]
    /\ BagCardinality(road.vehicles) = 1 + Config["vehicles_count"]
    /\ steps = episode.k

\* C13 as stated: whatever operation changed the configuration, the world
\* and the counter of every reachable state are those of the current
\* configuration.
C13_AlwaysRebuilt == WorldMatchesConfig

\* C13 as amended: set_difficulty_level rebuilds the world and zeroes the
\* counter, and the world and the counter are those of the current
\* configuration in every state in which configure has not been called since
\* the last successful rebuild.
C13_RebuiltUnlessConfigured ==
    /\ (call.op = "set_difficulty_level" /\ ret.err = "none") =>
          (steps = 0 /\ WorldMatchesConfig)
    /\ episode.clean => WorldMatchesConfig

\* EASY selected in the middle of a HARD episode: the 4-lane road, its 51
\* vehicles and the count are gone
C13_Witness ==
    /\ call.op = "set_difficulty_level" /\ call.level = "EASY" /\ ret.err = "none"
    /\ episode.clean /\ steps = 0
    /\ road.lanes = 2 /\ BagCardinality(road.vehicles) = 6

\* C14: once a step has returned terminal = true, a further step call before
\* the next reset mutates nothing: it is rejected with EpisodeFinished or it
\* leaves the step counter and the world as they were.
C14_NoStepAfterTerminal ==
    [][(Stepped /\ ret.terminal /\ call'.op = "step") =>
          \/ ret'.err = "EpisodeFinished" /\ steps' = steps
                /\ road' = road /\ vehicle' = vehicle
          \/ steps' = steps /\ road' = road /\ vehicle' = vehicle]_vars

\* C15: whatever has been called, configure overrides of profile keys
\* included, every entry of DIFFICULTY_LEVELS has its initial value.
C15_RegistryReadOnly ==
    \A level \in LevelNames : DIFFICULTY_LEVELS(level) = DIFFICULTY_LEVELS_INIT[level]

\* configure has overridden duration in a configuration merged with EASY
C15_Witness ==
    /\ call.op = "configure" /\ "duration" \in DOMAIN call.overrides
    /\ Config["lanes_count"] = DIFFICULTY_LEVELS_INIT["EASY"]["lanes_count"]
    /\ Config["duration"] # DIFFICULTY_LEVELS_INIT["EASY"]["duration"]
    /\ DIFFICULTY_LEVELS("EASY")["duration"] = 20

\* C16: configure returns normally for every override mapping, an
\* unresolvable other_vehicles_type included; the error it prepares is raised
\* by the next reset, and no configure and no step ever raises it.
C16_MergeNeverValidates ==
    LET unresolved == ~Resolvable(Config["other_vehicles_type"])
    IN  /\ call.op = "configure" => ret.err = "none"
        /\ call.op = "step" => ret.err # "UnresolvedBehaviorType"
        /\ ret.err = "UnresolvedBehaviorType" =>
              (call.op \in {"reset", "set_difficulty_level"} /\ unresolved)
        /\ (call.op = "reset" /\ unresolved) => ret.err = "UnresolvedBehaviorType"

\* a step on the world built before an unresolvable type was configured
C16_Witness ==
    /\ Stepped /\ ~Resolvable(Config["other_vehicles_type"])
    /\ BagCardinality(road.vehicles) = 1 + Config["vehicles_count"]

\* C17: once a step has returned terminal = true, every later step of the
\* same episode (no reset, set_difficulty_level or configure in between)
\* that returns also returns terminal = true.
C17_TerminalStable ==
    [][(Stepped /\ ret.terminal /\ call'.op = "step" /\ ret'.err = "none") =>
          ret'.terminal]_vars

\* a step past the duration of an EASY episode, still terminal without a crash
C17_Witness ==
    /\ Stepped /\ ret.terminal /\ ~vehicle.crashed
    /\ episode.clean /\ episode.k > episode.D

\* C18: in an episode started by a reset with duration D > 0 and played
\* without a configuration change, a step has returned terminal = true by
\* the D-th step call, crash or no crash: while no terminal step has been
\* seen fewer than D calls were made, and the D-th call returns terminal.
C18_EndsWithinDuration ==
    episode.clean =>
        /\ episode.D > 0
        /\ (call.op = "step" /\ episode.k >= episode.D) =>
              (ret.err = "none" /\ ret.terminal)
        /\ (call.op = "step" /\ ~(ret.err = "none" /\ ret.terminal)) =>
              episode.k < episode.D

\* C19: the step that follows configure({duration: d}) in mid-episode, when
\* it returns without a crash, is terminal exactly when the incremented step
\* counter is >= d, whatever the duration was at reset.
C19_TerminalReadsCurrentConfig ==
    [][(/\ call.op = "configure" /\ "duration" \in DOMAIN call.overrides
        /\ call'.op = "step" /\ ret'.err = "none" /\ ~vehicle'.crashed) =>
          (ret'.terminal <=> steps + 1 >= call.overrides["duration"])]_vars

\* an episode that timed out at duration 2 goes on after the duration is
\* raised to 5
C19_Witness ==
    /\ Stepped /\ ~vehicle.crashed /\ ~ret.terminal
    /\ steps = 3 /\ Config["duration"] = 5 /\ ~episode.clean

=============================================================================
